---- MODULE Spec2Model ----
(***************************************************************************)
(* Model of the lexical analyser of lua5-rs (src/src/lexer.rs).            *)
(*                                                                         *)
(* The source text is a sequence of one-character strings.  The Lexer's   *)
(* `buf` (a Peekable<Chars>) is modelled by the number of characters it    *)
(* has yielded so far, its `pos` by the record [line, pos].  One action,   *)
(* LexerNext, models one call of Iterator::next.  The macros of next()     *)
(* (peek!, skip!, scan_op!, skip_whitespace!, read_line!, emit!) are       *)
(* operators over the lexer state record s = [buf, line, pos].             *)
(***************************************************************************)
EXTENDS Integers, Sequences, FiniteSets, TLC

VARIABLES src, buf, pos, out, pulls, pc

vars == <<src, buf, pos, out, pulls, pc>>

(***************************************************************************)
(* Bounds.                                                                 *)
(***************************************************************************)
\* Longest source text that is enumerated.
MaxLen == 5

\* Number of pulls made after the first one that returned None.
ExtraPulls == 1

\* Longest run of one repeated digit in the middle of a long hexadecimal
\* numeral.
MaxFill == 14

(***************************************************************************)
(* Characters and character classes (ASCII part of the std predicates).    *)
(***************************************************************************)
\* Option<char>::None, as returned by peek!.
None == "None"

Digits == {"0", "1", "2", "3", "4", "5", "6", "7", "8", "9"}

HexDigits == Digits \cup {"a", "b", "c", "d", "e", "f", "A", "B", "C", "D", "E", "F"}

Letters ==
    {"a", "b", "c", "d", "e", "f", "g", "h", "i", "j", "k", "l", "m",
     "n", "o", "p", "q", "r", "s", "t", "u", "v", "w", "x", "y", "z",
     "A", "B", "C", "D", "E", "F", "G", "H", "I", "J", "K", "L", "M",
     "N", "O", "P", "Q", "R", "S", "T", "U", "V", "W", "X", "Y", "Z"}

\* char::is_whitespace; VT is the vertical tab.
Whitespace == {" ", "\t", "\n", "\r", "\f", "VT"}

is_whitespace(chr) == chr \in Whitespace

is_alphabetic(chr) == chr \in Letters

is_alphanumeric(chr) == chr \in Letters \cup Digits

is_digit(chr, radix) == IF radix = 16 THEN chr \in HexDigits ELSE chr \in Digits

\* All texts over alphabet A of length at most n.
Texts(A, n) == UNION {[1..k -> A] : k \in 0..n}

(***************************************************************************)
(* Lexer state and the stream macros.                                      *)
(***************************************************************************)
\* TokenPosition::default
TokenPositionDefault == [line |-> 1, pos |-> 0]

\* impl Display for TokenPosition: "[{}, {}]"
fmt_Display(p) == "[" \o ToString(p.line) \o ", " \o ToString(p.pos) \o "]"

\* #[derive(Debug)] on TokenPosition, as `{:?}` formats it.
fmt_Debug(p) ==
    "TokenPosition { line: " \o ToString(p.line) \o ", pos: " \o ToString(p.pos) \o " }"

\* The panic message of log!(ERR msg) at position p: format!("{:?} {}", ...)
log_format(p, msg) == fmt_Debug(p) \o " " \o msg

\* The fields of the Lexer as one record.
Self == [buf |-> buf, line |-> pos.line, pos |-> pos.pos]

\* peek!(n): the character n steps ahead of the cursor, without consuming.
peek(s, n) == IF s.buf + n + 1 <= Len(src) THEN src[s.buf + n + 1] ELSE None

\* skip! that does not reset the column at a newline.
skip1_NoReset(s) ==
    LET chr == peek(s, 0)
    IN  IF chr = None THEN s
        ELSE IF chr = "\n"
             THEN [buf |-> s.buf + 1, line |-> s.line + 1, pos |-> s.pos + 1]
             ELSE [buf |-> s.buf + 1, line |-> s.line, pos |-> s.pos + 1]

\* skip! that counts a newline as an ordinary character.
skip1_NoLine(s) ==
    LET chr == peek(s, 0)
    IN  IF chr = None THEN s
        ELSE [buf |-> s.buf + 1, line |-> s.line, pos |-> s.pos + 1]

\* One iteration of skip!: consume one character and track line and column.
skip1(s) ==
    LET chr == peek(s, 0)
    IN  IF chr = None THEN s
        ELSE IF chr = "\n"
             THEN [buf |-> s.buf + 1, line |-> s.line + 1, pos |-> 0]
             ELSE [buf |-> s.buf + 1, line |-> s.line, pos |-> s.pos + 1]

\* skip!(n)
RECURSIVE skip(_, _)
skip(s, n) == IF n = 0 THEN s ELSE skip(skip1(s), n - 1)

\* skip_whitespace! with an `if` in place of the `while`.
skip_whitespace_Once(s) ==
    IF peek(s, 0) # None /\ is_whitespace(peek(s, 0)) THEN skip1(s) ELSE s

\* skip_whitespace!
RECURSIVE skip_whitespace(_)
skip_whitespace(s) ==
    IF peek(s, 0) # None /\ is_whitespace(peek(s, 0))
    THEN skip_whitespace(skip1(s))
    ELSE s

\* The loop of read_line!: collect characters up to a newline or the end.
RECURSIVE read_line_loop(_, _)
read_line_loop(s, comment) ==
    LET chr == peek(s, 0)
    IN  IF chr = "\n" \/ chr = None
        THEN [s |-> s, text |-> comment]
        ELSE read_line_loop(skip1(s), Append(comment, chr))

\* read_line!
read_line(s) == read_line_loop(skip_whitespace(s), <<>>)

(***************************************************************************)
(* Results of the match arms of next().                                    *)
(***************************************************************************)
\* emit!($token): the arm produced a token; s is the lexer after the arm.  num
\* is the value of a hexadecimal Number, as the bits of the integer the f64 is
\* equal to, most significant first (a decimal Number is kept as its text).
emit(tk, text, s) ==
    [res |-> "some", tk |-> tk, text |-> text, s |-> s,
     no_skip |-> FALSE, closed |-> FALSE, msg |-> "", num |-> <<>>]

\* log!(ERR msg) that reports the error as a token and goes on.
log_ERR_Recover(msg, s) ==
    [res |-> "some", tk |-> "Error", text |-> <<>>, s |-> s,
     no_skip |-> FALSE, closed |-> FALSE, msg |-> msg, num |-> <<>>]

\* log!(ERR msg): panic; s is the lexer at the time of the panic.
log_ERR(msg, s) ==
    [res |-> "panic", tk |-> "", text |-> <<>>, s |-> s,
     no_skip |-> FALSE, closed |-> FALSE, msg |-> msg, num |-> <<>>]

\* The two-argument scan_op! with the fallback of the three-argument one.
scan_op2_Lenient(s, expected, tk) ==
    IF peek(s, 1) = expected THEN emit(tk, <<>>, skip1(s))
    ELSE emit(tk, <<>>, s)

\* scan_op!($expected, $tk)
scan_op2(s, expected, tk) ==
    LET chr == peek(s, 1)
    IN  IF chr = expected THEN emit(tk, <<>>, skip1(s))
        ELSE IF chr # None THEN log_ERR("Unimplemented operator", s)
        ELSE log_ERR("Unexpected end of stream.", s)

\* The three-argument scan_op! without its skip!(1).
scan_op3_NoSkip(s, expected, tka, tkb) ==
    IF peek(s, 1) = expected THEN emit(tka, <<>>, s)
    ELSE emit(tkb, <<>>, s)

\* scan_op!($expected, $tka, $tkb)
scan_op3(s, expected, tka, tkb) ==
    IF peek(s, 1) = expected THEN emit(tka, <<>>, skip1(s))
    ELSE emit(tkb, <<>>, s)

\* Tokens of the single-character arms.
SingleCharToken ==
    [c \in {"(", ")", "[", "]", "{", "}", "|", ",", ";", "+", "*", "/", "%", "^", "$"} |->
        CASE c = "(" -> "OpenParen"
          [] c = ")" -> "CloseParen"
          [] c = "[" -> "OpenBracket"
          [] c = "]" -> "CloseBracket"
          [] c = "{" -> "OpenBrace"
          [] c = "}" -> "CloseBrace"
          [] c = "|" -> "Lambda"
          [] c = "," -> "Comma"
          [] c = ";" -> "Semicolon"
          [] c = "+" -> "Add"
          [] c = "*" -> "Mul"
          [] c = "/" -> "Div"
          [] c = "%" -> "Mod"
          [] c = "^" -> "Power"
          [] c = "$" -> "Dollar"]

(***************************************************************************)
(* The match arms of next().                                               *)
(***************************************************************************)
\* The '.' arm without the skip!(1) that precedes its scan_op!.
DotArm_NoSkip(s) ==
    IF peek(s, 1) = "."
    THEN scan_op3(s, ".", "VarArgs", "Concat")
    ELSE emit("MemberAccess", <<>>, s)

\* '.' arm: `.`, `..` and `...`.
DotArm(s) ==
    IF peek(s, 1) = "."
    THEN scan_op3(skip1(s), ".", "VarArgs", "Concat")
    ELSE emit("MemberAccess", <<>>, s)

\* emit!($token(line)) for the result r of read_line!.
emit_line(tk, r) == emit(tk, r.text, r.s)

\* The '#' arm with a guard that tests the line only.
HashArm_LineOnly(s, now) ==
    IF peek(s, 1) = "!" /\ now.line = 1
    THEN emit_line("Hashbang", read_line(skip(s, 2)))
    ELSE IF peek(s, 1) = "!"
         THEN log_ERR("The shebang has to be on the first line!", s)
         ELSE emit("Len", <<>>, s)

\* '#' arm: hashbang on the very first position, Len otherwise.
HashArm(s, now) ==
    IF peek(s, 1) = "!" /\ now.line = 1 /\ now.pos = 0
    THEN emit_line("Hashbang", read_line(skip(s, 2)))
    ELSE IF peek(s, 1) = "!"
         THEN log_ERR("The shebang has to be on the first line!", s)
         ELSE emit("Len", <<>>, s)

\* '-' arm: comment or minus.
MinusArm(s) ==
    IF peek(s, 1) = "-"
    THEN emit_line("Comment", read_line(skip(s, 2)))
    ELSE emit("SubOrMinus", <<>>, s)

\* The escape codes of the string arm and what they push.
EscapeCode ==
    [c \in {"\\", "'", "\"", "a", "b", "v", "f", "n", "r", "t", "[", "]"} |->
        CASE c = "\\" -> "\\"
          [] c = "'" -> "'"
          [] c = "\"" -> "\""
          [] c = "a" -> "BEL"
          [] c = "b" -> "BS"
          [] c = "v" -> "VT"
          [] c = "f" -> "\f"
          [] c = "n" -> "\n"
          [] c = "r" -> "\r"
          [] c = "t" -> "\t"
          [] c = "[" -> "["
          [] c = "]" -> "]"]

\* The string loop closed by either quote character.
RECURSIVE StringLoop_AnyQuote(_, _, _)
StringLoop_AnyQuote(s, sbuf, delimiter) ==
    LET chr == peek(s, 0)
    IN  IF chr = None
        THEN emit("StaticString", sbuf, s)
        ELSE IF chr = "\\"
        THEN LET s1 == skip1(s)
                 esc == peek(s1, 0)
             IN  IF esc = None
                 THEN log_ERR("Unexpected end of string.", s1)
                 ELSE IF esc \in DOMAIN EscapeCode
                      THEN StringLoop_AnyQuote(skip1(s1), Append(sbuf, EscapeCode[esc]), delimiter)
                      ELSE log_ERR("Invalid escape code", skip1(s1))
        ELSE IF chr \in {"\"", "'"}
        THEN [emit("StaticString", sbuf, skip1(s)) EXCEPT !.closed = TRUE]
        ELSE StringLoop_AnyQuote(skip1(s), Append(sbuf, chr), delimiter)

\* The string loop with an escape that consumes the backslash only.
RECURSIVE StringLoop_ShortEscape(_, _, _)
StringLoop_ShortEscape(s, sbuf, delimiter) ==
    LET chr == peek(s, 0)
    IN  IF chr = None
        THEN emit("StaticString", sbuf, s)
        ELSE IF chr = "\\"
        THEN LET s1 == skip1(s)
                 esc == peek(s1, 0)
             IN  IF esc = None
                 THEN log_ERR("Unexpected end of string.", s1)
                 ELSE IF esc \in DOMAIN EscapeCode
                      THEN StringLoop_ShortEscape(s1, Append(sbuf, EscapeCode[esc]), delimiter)
                      ELSE log_ERR("Invalid escape code", skip1(s1))
        ELSE IF chr = delimiter
        THEN [emit("StaticString", sbuf, skip1(s)) EXCEPT !.closed = TRUE]
        ELSE StringLoop_ShortEscape(skip1(s), Append(sbuf, chr), delimiter)

\* The `while let Some(chr) = peek!()` loop of the string arm.
RECURSIVE StringLoop(_, _, _)
StringLoop(s, sbuf, delimiter) ==
    LET chr == peek(s, 0)
    IN  IF chr = None
        THEN emit("StaticString", sbuf, s)
        ELSE IF chr = "\\"
        THEN LET s1 == skip1(s)
                 esc == peek(s1, 0)
             IN  IF esc = None
                 THEN log_ERR("Unexpected end of string.", s1)
                 ELSE IF esc \in DOMAIN EscapeCode
                      THEN StringLoop(skip1(s1), Append(sbuf, EscapeCode[esc]), delimiter)
                      ELSE log_ERR("Invalid escape code", skip1(s1))
        ELSE IF chr = delimiter
        THEN [emit("StaticString", sbuf, skip1(s)) EXCEPT !.closed = TRUE]
        ELSE StringLoop(skip1(s), Append(sbuf, chr), delimiter)

\* '"' | '\'' arm.
StringArm(s) == StringLoop(skip1(s), <<>>, peek(s, 0))

\* The identifier loop that leaves no_skip unset.
RECURSIVE IdentLoop_Skip(_, _)
IdentLoop_Skip(s, ibuf) ==
    LET chr == peek(s, 0)
    IN  IF chr # None /\ (is_alphanumeric(chr) \/ chr = "_")
        THEN IdentLoop_Skip(skip1(s), Append(ibuf, chr))
        ELSE emit("Ident", ibuf, s)

\* The loop of the identifier branch.
RECURSIVE IdentLoop(_, _)
IdentLoop(s, ibuf) ==
    LET chr == peek(s, 0)
    IN  IF chr # None /\ (is_alphanumeric(chr) \/ chr = "_")
        THEN IdentLoop(skip1(s), Append(ibuf, chr))
        ELSE [emit("Ident", ibuf, s) EXCEPT !.no_skip = TRUE]

\* Identifier branch of the default arm.
IdentArm(s) == IdentLoop(s, <<>>)

(***************************************************************************)
(* Numbers.                                                                *)
(***************************************************************************)
\* Index after the digits of nbuf that start at index k.
RECURSIVE DigitsEnd(_, _)
DigitsEnd(nbuf, k) ==
    IF k <= Len(nbuf) /\ nbuf[k] \in Digits THEN DigitsEnd(nbuf, k + 1) ELSE k

\* The exponent digits of parse::<f64>, from index c to the end of nbuf.
ExpDigitsOk(nbuf, c) ==
    DigitsEnd(nbuf, c) > c /\ DigitsEnd(nbuf, c) = Len(nbuf) + 1

\* The optional exponent part of parse::<f64>, from index b: [eE] [+-]? Digit+.
ExponentOk(nbuf, b) ==
    \/ b = Len(nbuf) + 1
    \/ /\ b <= Len(nbuf)
       /\ nbuf[b] \in {"e", "E"}
       /\ IF b + 1 <= Len(nbuf) /\ nbuf[b + 1] \in {"+", "-"}
          THEN ExpDigitsOk(nbuf, b + 2)
          ELSE ExpDigitsOk(nbuf, b + 1)

\* The mantissa of parse::<f64>, its integer digits ending before index a:
\* Digit+ | Digit+ '.' Digit* | Digit* '.' Digit+.
MantissaOk(nbuf, a) ==
    IF a <= Len(nbuf) /\ nbuf[a] = "."
    THEN /\ (a - 1) + (DigitsEnd(nbuf, a + 1) - a - 1) > 0
         /\ ExponentOk(nbuf, DigitsEnd(nbuf, a + 1))
    ELSE a > 1 /\ ExponentOk(nbuf, a)

\* buf.parse::<f64>() is Ok (no sign, inf or nan: the buffer starts with a
\* digit).
ParseF64Ok(nbuf) == MantissaOk(nbuf, DigitsEnd(nbuf, 1))

\* Index of the first character of nbuf at or after k that is not "0".
RECURSIVE ZerosEnd(_, _)
ZerosEnd(nbuf, k) ==
    IF k <= Len(nbuf) /\ nbuf[k] = "0" THEN ZerosEnd(nbuf, k + 1) ELSE k

\* from_str_radix that parses into a u64: sixteen digits always fit.
FromStrRadix16Ok_U64(nbuf) ==
    /\ Len(nbuf) > 0
    /\ \A k \in 1..Len(nbuf) : nbuf[k] \in HexDigits
    /\ Len(nbuf) - ZerosEnd(nbuf, 1) + 1 <= 16

\* i64::from_str_radix(buf, 16) is Ok: hex digits only, value below 2^63.
FromStrRadix16Ok(nbuf) ==
    /\ Len(nbuf) > 0
    /\ \A k \in 1..Len(nbuf) : nbuf[k] \in HexDigits
    /\ \/ Len(nbuf) - ZerosEnd(nbuf, 1) + 1 < 16
       \/ /\ Len(nbuf) - ZerosEnd(nbuf, 1) + 1 = 16
          /\ nbuf[ZerosEnd(nbuf, 1)] \in {"0", "1", "2", "3", "4", "5", "6", "7"}

\* The value of a hexadecimal digit.
HexDigitValue ==
    [c \in HexDigits |->
        CASE c \in Digits -> CHOOSE v \in 0..9 : ToString(v) = c
          [] c \in {"a", "A"} -> 10
          [] c \in {"b", "B"} -> 11
          [] c \in {"c", "C"} -> 12
          [] c \in {"d", "D"} -> 13
          [] c \in {"e", "E"} -> 14
          [] c \in {"f", "F"} -> 15]

\* The four bits of a digit value, most significant first.
Bits4(v) == <<v \div 8, (v \div 4) % 2, (v \div 2) % 2, v % 2>>

\* The bits of the hex digits of nbuf from index k on.
RECURSIVE DigitBits(_, _)
DigitBits(nbuf, k) ==
    IF k > Len(nbuf) THEN <<>>
    ELSE Bits4(HexDigitValue[nbuf[k]]) \o DigitBits(nbuf, k + 1)

\* A bit sequence without its leading zeros.
RECURSIVE StripZeros(_)
StripZeros(b) == IF b # <<>> /\ b[1] = 0 THEN StripZeros(Tail(b)) ELSE b

\* The value of i64::from_str_radix(buf, 16) when it is Ok, as its bits.
from_str_radix16(nbuf) == StripZeros(DigitBits(nbuf, 1))

\* The bits of the successor of the number with bits b.
RECURSIVE Inc(_)
Inc(b) ==
    IF b = <<>> THEN <<1>>
    ELSE IF b[Len(b)] = 0 THEN SubSeq(b, 1, Len(b) - 1) \o <<1>>
    ELSE Inc(SubSeq(b, 1, Len(b) - 1)) \o <<0>>

\* Significand width of f64.
MantissaBits == 53

\* Round-to-nearest-even of the non-negative integer with bits b to a
\* significand of MantissaBits bits: whether the dropped bits round up.
RoundsUp(b) ==
    /\ b[MantissaBits + 1] = 1
    /\ \/ b[MantissaBits] = 1
       \/ \E j \in (MantissaBits + 2)..Len(b) : b[j] = 1

\* `num as f64` for a non-negative i64 with bits b: the integer the f64 equals.
as_f64(b) ==
    IF Len(b) <= MantissaBits THEN b
    ELSE (IF RoundsUp(b) THEN Inc(SubSeq(b, 1, MantissaBits))
                         ELSE SubSeq(b, 1, MantissaBits))
         \o [i \in 1..(Len(b) - MantissaBits) |-> 0]

\* is_hexadecimal without the test that the first digit is `0`.
is_hexadecimal_AnyDigit(s) ==
    IF peek(s, 1) \in {"x", "X"}
    THEN IF peek(s, 2) = None THEN "none"
         ELSE IF ~is_digit(peek(s, 2), 16) THEN "char"
         ELSE "true"
    ELSE "false"

\* is_hexadecimal: "none" is the panic "Unexpected end of hexnum.", "char"
\* the panic "Unexpected character in hexnum".
is_hexadecimal(s) ==
    IF peek(s, 1) \in {"x", "X"}
    THEN IF peek(s, 0) # "0" THEN "false"
         ELSE IF peek(s, 2) = None THEN "none"
         ELSE IF ~is_digit(peek(s, 2), 16) THEN "char"
         ELSE "true"
    ELSE "false"

\* The scan loop with a second `.` ending the numeral instead of panicking.
RECURSIVE NumLoop_DotEnds(_, _, _, _, _)
NumLoop_DotEnds(s, nbuf, has_exponent, has_fractional, hex) ==
    LET chr == peek(s, 0)
        done == [res |-> "some", s |-> s, nbuf |-> nbuf, msg |-> ""]
        fail(m) == [res |-> "panic", s |-> s, nbuf |-> nbuf, msg |-> m]
    IN  IF chr = None THEN done
        ELSE IF chr = "."
        THEN IF has_fractional
             THEN done
             ELSE NumLoop_DotEnds(skip1(s), Append(nbuf, chr), has_exponent, TRUE, hex)
        ELSE IF has_exponent /\ ~is_digit(chr, 10)
        THEN fail("Unexpected character in exponent")
        ELSE IF (hex /\ is_digit(chr, 16)) \/ (~hex /\ is_digit(chr, 10))
        THEN NumLoop_DotEnds(skip1(s), Append(nbuf, chr), has_exponent, has_fractional, hex)
        ELSE IF chr \in {"e", "E"}
        THEN IF has_exponent
             THEN fail("A number can contain one exponent at max!")
             ELSE LET s1 == skip1(s)
                      b1 == Append(nbuf, chr)
                  IN  IF peek(s1, 0) = "-"
                      THEN NumLoop_DotEnds(skip1(s1), Append(b1, chr), TRUE, has_fractional, hex)
                      ELSE NumLoop_DotEnds(s1, b1, TRUE, has_fractional, hex)
        ELSE done

\* The scan loop without the exponent: no is_num! check and no [eE] arm.
RECURSIVE NumLoop_NoExponent(_, _, _, _, _)
NumLoop_NoExponent(s, nbuf, has_exponent, has_fractional, hex) ==
    LET chr == peek(s, 0)
        done == [res |-> "some", s |-> s, nbuf |-> nbuf, msg |-> ""]
        fail(m) == [res |-> "panic", s |-> s, nbuf |-> nbuf, msg |-> m]
    IN  IF chr = None THEN done
        ELSE IF chr = "."
        THEN IF has_fractional
             THEN fail("A number can contain one fractional part at max!")
             ELSE NumLoop_NoExponent(skip1(s), Append(nbuf, chr), has_exponent, TRUE, hex)
        ELSE IF (hex /\ is_digit(chr, 16)) \/ (~hex /\ is_digit(chr, 10))
        THEN NumLoop_NoExponent(skip1(s), Append(nbuf, chr), has_exponent, has_fractional, hex)
        ELSE done

\* The scan loop with the [eE] arm tried before the is_num! arm.
RECURSIVE NumLoop_ExponentFirst(_, _, _, _, _)
NumLoop_ExponentFirst(s, nbuf, has_exponent, has_fractional, hex) ==
    LET chr == peek(s, 0)
        done == [res |-> "some", s |-> s, nbuf |-> nbuf, msg |-> ""]
        fail(m) == [res |-> "panic", s |-> s, nbuf |-> nbuf, msg |-> m]
    IN  IF chr = None THEN done
        ELSE IF chr = "."
        THEN IF has_fractional
             THEN fail("A number can contain one fractional part at max!")
             ELSE NumLoop_ExponentFirst(skip1(s), Append(nbuf, chr), has_exponent, TRUE, hex)
        ELSE IF chr \in {"e", "E"}
        THEN IF has_exponent
             THEN fail("A number can contain one exponent at max!")
             ELSE LET s1 == skip1(s)
                      b1 == Append(nbuf, chr)
                  IN  IF peek(s1, 0) = "-"
                      THEN NumLoop_ExponentFirst(skip1(s1), Append(b1, chr), TRUE, has_fractional, hex)
                      ELSE NumLoop_ExponentFirst(s1, b1, TRUE, has_fractional, hex)
        ELSE IF has_exponent /\ ~is_digit(chr, 10)
        THEN fail("Unexpected character in exponent")
        ELSE IF (hex /\ is_digit(chr, 16)) \/ (~hex /\ is_digit(chr, 10))
        THEN NumLoop_ExponentFirst(skip1(s), Append(nbuf, chr), has_exponent, has_fractional, hex)
        ELSE done

\* The scan loop of the number branch, with the is_num! guard.
RECURSIVE NumLoop(_, _, _, _, _)
NumLoop(s, nbuf, has_exponent, has_fractional, hex) ==
    LET chr == peek(s, 0)
        done == [res |-> "some", s |-> s, nbuf |-> nbuf, msg |-> ""]
        fail(m) == [res |-> "panic", s |-> s, nbuf |-> nbuf, msg |-> m]
    IN  IF chr = None THEN done
        ELSE IF chr = "."
        THEN IF has_fractional
             THEN fail("A number can contain one fractional part at max!")
             ELSE NumLoop(skip1(s), Append(nbuf, chr), has_exponent, TRUE, hex)
        ELSE IF has_exponent /\ ~is_digit(chr, 10)
        THEN fail("Unexpected character in exponent")
        ELSE IF (hex /\ is_digit(chr, 16)) \/ (~hex /\ is_digit(chr, 10))
        THEN NumLoop(skip1(s), Append(nbuf, chr), has_exponent, has_fractional, hex)
        ELSE IF chr \in {"e", "E"}
        THEN IF has_exponent
             THEN fail("A number can contain one exponent at max!")
             ELSE LET s1 == skip1(s)
                      b1 == Append(nbuf, chr)
                  IN  IF peek(s1, 0) = "-"
                      THEN NumLoop(skip1(s1), Append(b1, chr), TRUE, has_fractional, hex)
                      ELSE NumLoop(s1, b1, TRUE, has_fractional, hex)
        ELSE done

\* Value construction from the result r of the scan loop.
NumberValue(r, hex) ==
    IF r.res = "panic" THEN log_ERR(r.msg, r.s)
    ELSE IF hex
    THEN IF FromStrRadix16Ok(r.nbuf)
         THEN [emit("Number", r.nbuf, r.s)
                   EXCEPT !.num = as_f64(from_str_radix16(r.nbuf))]
         ELSE log_ERR("ParseIntError", r.s)
    ELSE IF ParseF64Ok(r.nbuf)
         THEN emit("Number", r.nbuf, r.s)
         ELSE log_ERR("The number is malformed and doesn't parse.", r.s)

\* The number branch once is_hexadecimal is evaluated to h.
NumberScan(s, h) ==
    IF h = "char" THEN log_ERR("Unexpected character in hexnum", s)
    ELSE IF h = "none" THEN log_ERR("Unexpected end of hexnum.", s)
    ELSE IF h = "true"
    THEN NumberValue(NumLoop(skip(s, 2), <<>>, FALSE, FALSE, TRUE), TRUE)
    ELSE NumberValue(NumLoop(s, <<>>, FALSE, FALSE, FALSE), FALSE)

\* Number branch of the default arm.
NumberArm(s) == NumberScan(s, is_hexadecimal(s))

(***************************************************************************)
(* Iterator::next.                                                         *)
(***************************************************************************)
\* The `match chr` of next(): the arm taken for the character at the cursor.
Match(chr, s, now) ==
    IF chr \in DOMAIN SingleCharToken THEN emit(SingleCharToken[chr], <<>>, s)
    ELSE IF chr = "~" THEN scan_op2(s, "=", "NotEqual")
    ELSE IF chr = "=" THEN scan_op3(s, "=", "Equal", "Assignment")
    ELSE IF chr = "<" THEN scan_op3(s, "=", "LessThanEqual", "LessThan")
    ELSE IF chr = ">" THEN scan_op3(s, "=", "GreaterThanEqual", "GreaterThan")
    ELSE IF chr = ":" THEN scan_op3(s, ":", "DoubleColon", "Colon")
    ELSE IF chr = "." THEN DotArm(s)
    ELSE IF chr = "#" THEN HashArm(s, now)
    ELSE IF chr = "-" THEN MinusArm(s)
    ELSE IF chr \in {"\"", "'"} THEN StringArm(s)
    ELSE IF is_alphabetic(chr) \/ chr = "_" THEN IdentArm(s)
    ELSE IF is_digit(chr, 10) THEN NumberArm(s)
    ELSE log_ERR("Unimplemented operator", s)

\* `if let Some(chr) = peek!()` with the match, at token start s.
Dispatch(s, now) == Match(peek(s, 0), s, now)

\* `now` that keeps the line of self.pos only.
Now_LineStart(s) == [line |-> s.line, pos |-> 0]

\* `now = self.pos`
Now(s) == [line |-> s.line, pos |-> s.pos]

\* Finish without the trailing skip!(1).
Finish_NoSkip(s1, r) ==
    [res |-> r.res, tk |-> r.tk, text |-> r.text, now |-> Now(s1),
     s |-> r.s,
     start |-> s1.buf, armEnd |-> r.s.buf, closed |-> r.closed, msg |-> r.msg,
     num |-> r.num]

\* What next() returns and the lexer it leaves, given the token start s1 and
\* the result r of the match: unless no_skip is set, one more character is
\* skipped.  start is the cursor at the token's first character, armEnd the
\* cursor when the match arm is left, s the lexer when next() returns.
Finish(s1, r) ==
    [res |-> r.res, tk |-> r.tk, text |-> r.text, now |-> Now(s1),
     s |-> IF r.res = "some" /\ ~r.no_skip THEN skip1(r.s) ELSE r.s,
     start |-> s1.buf, armEnd |-> r.s.buf, closed |-> r.closed, msg |-> r.msg,
     num |-> r.num]

\* Scan with a lexer that starts over once the stream is exhausted.
Scan_Rewind(s1) ==
    IF peek(s1, 0) = None
    THEN [res |-> "none", tk |-> "", text |-> <<>>, now |-> Now(s1),
          s |-> [buf |-> 0, line |-> 1, pos |-> 0],
          start |-> s1.buf, armEnd |-> s1.buf, closed |-> FALSE, msg |-> "",
          num |-> <<>>]
    ELSE Finish(s1, Dispatch(s1, Now(s1)))

\* next() after its skip_whitespace!, at lexer state s1.
Scan(s1) ==
    IF peek(s1, 0) = None
    THEN [res |-> "none", tk |-> "", text |-> <<>>, now |-> Now(s1), s |-> s1,
          start |-> s1.buf, armEnd |-> s1.buf, closed |-> FALSE, msg |-> "",
          num |-> <<>>]
    ELSE Finish(s1, Dispatch(s1, Now(s1)))

\* The whole of next() from lexer state s0.
next(s0) == Scan(skip_whitespace(s0))

\* Lexeme($token, now)
Lexeme(tk, text, now) == [tk |-> tk, text |-> text, line |-> now.line, pos |-> now.pos]

(***************************************************************************)
(* State machine.                                                          *)
(***************************************************************************)
\* Lexer::new(src) for a source text over alphabet A.
InitOver(A) ==
    /\ src \in Texts(A, MaxLen)
    /\ buf = 0
    /\ pos = TokenPositionDefault
    /\ out = <<>>
    /\ pulls = <<>>
    /\ pc = "ready"

\* Number of pulls so far that returned None.
NoneCount == Cardinality({k \in 1..Len(pulls) : pulls[k].res = "none"})

\* The effect of a call of next() with result r: the lexer it leaves, the
\* lexeme handed to the consumer, and the record of the call.
Return(r) ==
    /\ buf' = r.s.buf
    /\ pos' = [line |-> r.s.line, pos |-> r.s.pos]
    /\ out' = IF r.res = "some"
              THEN Append(out, Lexeme(r.tk, r.text, r.now))
              ELSE out
    /\ pulls' = Append(pulls, [res |-> r.res, tk |-> r.tk, text |-> r.text,
                               from |-> buf, start |-> r.start,
                               armEnd |-> r.armEnd, end |-> r.s.buf,
                               closed |-> r.closed, msg |-> r.msg, num |-> r.num,
                               report |-> IF r.res = "panic"
                                          THEN log_format(Now(r.s), r.msg)
                                          ELSE ""])
    /\ pc' = CASE r.res = "some" -> "ready"
               [] r.res = "none" -> "exhausted"
               [] r.res = "panic" -> "panicked"

\* One call of Iterator::next by the consumer.
LexerNext ==
    /\ pc # "panicked"
    /\ NoneCount <= ExtraPulls
    /\ Return(next(Self))
    /\ UNCHANGED src

Next == LexerNext

\* Alphabets of the source texts.
NumAlphabet == {"0", "1", "x", "e", "-", "+", ".", " "}

StrAlphabet == {"\"", "'", "\\", "a", ")"}

LineAlphabet == {"#", "!", "-", "\n", " ", "a"}

DotAlphabet == {".", " ", "a", "\"", "1"}

OpAlphabet == {"=", "<", ">", ":", "~", "!", " ", "a"}

AllAlphabet == {"a", "1", "(", "\"", "-", ".", " ", "\n"}

WsAlphabet == {" ", "\t", "\n", "a"}

EscAlphabet == {"\\", "\"", "'", "a", "b", "v", "f", "n", "r", "t", "[", "]", "\n"}

QuoteAlphabet == {"\"", "'", "\\", "\n", "a"}

IdentAlphabet == {"e", "n", "d", "_", "1", "(", " "}

HexAlphabet == {"0", "1", "2", "7", "8", "e", "E", "F"}

Init == InitOver(LineAlphabet)

InitNum == InitOver(NumAlphabet)

InitStr == InitOver(StrAlphabet)

InitDot == InitOver(DotAlphabet)

InitOp == InitOver(OpAlphabet)

InitAll == InitOver(AllAlphabet)

InitWs == InitOver(WsAlphabet)

InitQuote == InitOver(QuoteAlphabet)

InitIdent == InitOver(IdentAlphabet)

\* Lexer::new(src) for a hexadecimal numeral: the prefix, up to two digits, a
\* run of zeros or of Fs, and possibly one more digit, a `-` or a `.`.
InitHex ==
    /\ src \in {<<"0", x>> \o head \o [i \in 1..n |-> fill] \o tail :
                   x \in {"x", "X"},
                   head \in Texts(HexAlphabet, 2),
                   fill \in {"0", "F"},
                   n \in 0..MaxFill,
                   tail \in Texts(HexAlphabet \cup {"-", "."}, 1)}
    /\ buf = 0
    /\ pos = TokenPositionDefault
    /\ out = <<>>
    /\ pulls = <<>>
    /\ pc = "ready"

\* Lexer::new(src) for a source text that opens a string literal.
InitEsc ==
    /\ src \in {<<"\"">> \o body : body \in Texts(EscAlphabet, MaxLen - 1)}
    /\ buf = 0
    /\ pos = TokenPositionDefault
    /\ out = <<>>
    /\ pulls = <<>>
    /\ pc = "ready"

Spec == Init /\ [][Next]_vars

SpecNum == InitNum /\ [][Next]_vars

SpecStr == InitStr /\ [][Next]_vars

SpecDot == InitDot /\ [][Next]_vars

SpecOp == InitOp /\ [][Next]_vars

SpecAll == InitAll /\ [][Next]_vars

SpecWs == InitWs /\ [][Next]_vars

SpecQuote == InitQuote /\ [][Next]_vars

SpecIdent == InitIdent /\ [][Next]_vars

SpecHex == InitHex /\ [][Next]_vars

SpecEsc == InitEsc /\ [][Next]_vars

TypeOK ==
    /\ buf \in 0..Len(src)
    /\ pos.line >= 1
    /\ pos.pos >= 0
    /\ pc \in {"ready", "exhausted", "panicked"}
    /\ Len(out) <= Len(pulls)

(***************************************************************************)
(* Reading the source text, for stating the properties.                    *)
(***************************************************************************)
\* Index of the first newline of src at or after index j, Len(src)+1 if none.
RECURSIVE NewlineFrom(_)
NewlineFrom(j) ==
    IF j > Len(src) \/ src[j] = "\n" THEN j ELSE NewlineFrom(j + 1)

\* Index of the first unescaped delimiter of src at or after index j, 0 if none.
RECURSIVE CloseIdx(_, _)
CloseIdx(j, delimiter) ==
    IF j > Len(src) THEN 0
    ELSE IF src[j] = "\\" THEN CloseIdx(j + 2, delimiter)
    ELSE IF src[j] = delimiter THEN j
    ELSE CloseIdx(j + 1, delimiter)

\* Number of consecutive dots of src from index j on.
RECURSIVE DotRun(_)
DotRun(j) == IF j <= Len(src) /\ src[j] = "." THEN 1 + DotRun(j + 1) ELSE 0

\* The tokens maximal munch makes of a run of r dots.
RECURSIVE ExpectedDots(_)
ExpectedDots(r) ==
    IF r = 0 THEN <<>>
    ELSE IF r = 1 THEN <<"MemberAccess">>
    ELSE IF r = 2 THEN <<"Concat">>
    ELSE <<"VarArgs">> \o ExpectedDots(r - 3)

\* The characters with a match arm of their own, and the token of each alone
\* and with its continuation.
OpContinuation == [c \in {"=", "<", ">", ":"} |-> IF c = ":" THEN ":" ELSE "="]

OpCompound ==
    [c \in {"=", "<", ">", ":"} |->
        CASE c = "=" -> "Equal"
          [] c = "<" -> "LessThanEqual"
          [] c = ">" -> "GreaterThanEqual"
          [] c = ":" -> "DoubleColon"]

OpBase ==
    [c \in {"=", "<", ">", ":"} |->
        CASE c = "=" -> "Assignment"
          [] c = "<" -> "LessThan"
          [] c = ">" -> "GreaterThan"
          [] c = ":" -> "Colon"]

\* The characters a token can start with.
TokenStartChars ==
    {"(", ")", "[", "]", "{", "}", "|", ",", ";", "+", "*", "/", "%", "^", "$",
     "~", "=", "<", ">", ":", ".", "#", "-", "\"", "'", "_"}
    \cup Letters \cup Digits

\* The character of src after index j, None at the end.
CharAfter(j) == IF j + 1 <= Len(src) THEN src[j + 1] ELSE None

\* The indexes of the newlines among the characters i+1..j of src.
NewlinesIn(i, j) == {n \in (i + 1)..j : src[n] = "\n"}

\* The greatest element of a non-empty set of numbers.
Max(S) == CHOOSE m \in S : \A n \in S : n <= m

\* Line and column of the character that follows the first j characters of src.
LineAt(j) == 1 + Cardinality(NewlinesIn(0, j))

ColumnAt(j) == j - Max({0} \cup NewlinesIn(0, j))

\* The pulls that dispatched on a character (1-based index of that character).
TokenStart(k) == pulls[k].start + 1

Dispatched == {k \in 1..Len(pulls) : pulls[k].res # "none"}

Min(a, b) == IF a < b THEN a ELSE b

\* The binary numeral of a hexadecimal digit.
HexDigitBinary(c) ==
    CASE c = "0" -> <<0, 0, 0, 0>> [] c = "1" -> <<0, 0, 0, 1>>
      [] c = "2" -> <<0, 0, 1, 0>> [] c = "3" -> <<0, 0, 1, 1>>
      [] c = "4" -> <<0, 1, 0, 0>> [] c = "5" -> <<0, 1, 0, 1>>
      [] c = "6" -> <<0, 1, 1, 0>> [] c = "7" -> <<0, 1, 1, 1>>
      [] c = "8" -> <<1, 0, 0, 0>> [] c = "9" -> <<1, 0, 0, 1>>
      [] c \in {"a", "A"} -> <<1, 0, 1, 0>> [] c \in {"b", "B"} -> <<1, 0, 1, 1>>
      [] c \in {"c", "C"} -> <<1, 1, 0, 0>> [] c \in {"d", "D"} -> <<1, 1, 0, 1>>
      [] c \in {"e", "E"} -> <<1, 1, 1, 0>> [] c \in {"f", "F"} -> <<1, 1, 1, 1>>

\* The binary numeral, without leading zeros, of the hexadecimal numeral made
\* of the characters i..j of src.
RECURSIVE HexBinary(_, _, _)
HexBinary(i, j, lead) ==
    IF i > j THEN <<>>
    ELSE IF lead /\ src[i] = "0" THEN HexBinary(i + 1, j, TRUE)
    ELSE IF lead THEN StripZeros(HexDigitBinary(src[i])) \o HexBinary(i + 1, j, FALSE)
    ELSE HexDigitBinary(src[i]) \o HexBinary(i + 1, j, FALSE)

\* The number with binary numeral v with all bits after the first 53 cleared,
\* and the next number with that property.
Below53(v) == SubSeq(v, 1, 53) \o [i \in 1..(Len(v) - 53) |-> 0]

Above53(v) == Inc(SubSeq(v, 1, 53)) \o [i \in 1..(Len(v) - 53) |-> 0]

\* Index after the run of hexadecimal digits of src that starts at index j.
RECURSIVE HexEnd(_)
HexEnd(j) == IF j <= Len(src) /\ src[j] \in HexDigits THEN HexEnd(j + 1) ELSE j

\* The number a hexadecimal digit stands for.
HexDigitNumber(c) ==
    CASE c = "0" -> 0 [] c = "1" -> 1 [] c = "2" -> 2 [] c = "3" -> 3
      [] c = "4" -> 4 [] c = "5" -> 5 [] c = "6" -> 6 [] c = "7" -> 7
      [] c = "8" -> 8 [] c = "9" -> 9
      [] c \in {"a", "A"} -> 10 [] c \in {"b", "B"} -> 11
      [] c \in {"c", "C"} -> 12 [] c \in {"d", "D"} -> 13
      [] c \in {"e", "E"} -> 14 [] c \in {"f", "F"} -> 15

\* The base-16 value of the characters i..j of src, given the value acc of
\* the digits before them.
RECURSIVE HexNumber(_, _, _)
HexNumber(i, j, acc) ==
    IF i > j THEN acc ELSE HexNumber(i + 1, j, 16 * acc + HexDigitNumber(src[i]))

\* The number with bits b, most significant first, given the value acc of the
\* bits before them.
RECURSIVE BitsNumber(_, _)
BitsNumber(b, acc) ==
    IF b = <<>> THEN acc ELSE BitsNumber(Tail(b), 2 * acc + b[1])

\* Index after the run of letters, digits and underscores of src that starts
\* at index j.
RECURSIVE WordEnd(_)
WordEnd(j) ==
    IF j <= Len(src) /\ src[j] \in Letters \cup Digits \cup {"_"}
    THEN WordEnd(j + 1)
    ELSE j

\* Index of the first occurrence of character c in src at or after index j,
\* 0 if there is none.
RECURSIVE FirstIdx(_, _)
FirstIdx(j, c) ==
    IF j > Len(src) THEN 0
    ELSE IF src[j] = c THEN j
    ELSE FirstIdx(j + 1, c)

\* The character an escape sequence stands for; None for an invalid escape.
Unescaped(c) ==
    CASE c \in {"\\", "'", "\"", "[", "]"} -> c
      [] c = "a" -> "BEL"
      [] c = "b" -> "BS"
      [] c = "v" -> "VT"
      [] c = "f" -> "\f"
      [] c = "n" -> "\n"
      [] c = "r" -> "\r"
      [] c = "t" -> "\t"
      [] OTHER -> None

\* Whether the string body of src that starts at index j has, before its
\* closing delimiter, a backslash that ends the source or is followed by a
\* character that is no escape code.
RECURSIVE BadEscape(_, _)
BadEscape(j, delimiter) ==
    IF j > Len(src) THEN FALSE
    ELSE IF src[j] = "\\"
    THEN IF j + 1 > Len(src) \/ Unescaped(src[j + 1]) = None
         THEN TRUE
         ELSE BadEscape(j + 2, delimiter)
    ELSE IF src[j] = delimiter THEN FALSE
    ELSE BadEscape(j + 1, delimiter)

\* The decoded characters of the string body of src from index j up to its
\* closing delimiter, or up to the end of the source if there is none.
RECURSIVE Decoded(_, _)
Decoded(j, delimiter) ==
    IF j > Len(src) THEN <<>>
    ELSE IF src[j] = "\\"
    THEN IF j + 1 > Len(src) THEN <<>>
         ELSE <<Unescaped(src[j + 1])>> \o Decoded(j + 2, delimiter)
    ELSE IF src[j] = delimiter THEN <<>>
    ELSE <<src[j]>> \o Decoded(j + 1, delimiter)

(***************************************************************************)
(* Properties.                                                             *)
(***************************************************************************)
\* C1: a pull that emits a Number for a decimal numeral without exponent, or
\* for a hexadecimal numeral, consumes the characters of the numeral and no
\* more: the character that ended the scan is still in the stream.
C1_NumberLeavesTerminator ==
    \A k \in Dispatched :
        LET st == TokenStart(k)
            hex == st + 1 <= Len(src) /\ src[st] = "0" /\ src[st + 1] \in {"x", "X"}
            text == pulls[k].text
        IN  (/\ pulls[k].res = "some"
             /\ pulls[k].tk = "Number"
             /\ (hex \/ \A j \in 1..Len(text) : text[j] \notin {"e", "E"}))
            => pulls[k].end = pulls[k].start + Len(text) + (IF hex THEN 2 ELSE 0)

\* C2: a pull that emits a StaticString closed by its delimiter leaves the
\* cursor right after that closing delimiter.
C2_StringStopsAfterDelimiter ==
    \A k \in Dispatched :
        LET st == TokenStart(k)
            close == CloseIdx(st + 1, src[st])
        IN  (pulls[k].res = "some" /\ pulls[k].tk = "StaticString" /\ close # 0)
            => pulls[k].end = close

\* C3: a pull that starts at a quote with no unescaped matching delimiter
\* before the end of the stream panics and emits no StaticString.
C3_UnterminatedStringIsFatal ==
    \A k \in Dispatched :
        LET st == TokenStart(k)
        IN  (src[st] \in {"\"", "'"} /\ CloseIdx(st + 1, src[st]) = 0)
            => pulls[k].res = "panic"

\* C4: a pull that starts at Digit+ [eE] Digit+ followed by a character that
\* is neither a digit nor `.`, `e`, `E` stops at that character and emits a
\* Number without panicking.
C4_ExponentStopsAtTerminator ==
    \A k \in Dispatched :
        LET st == TokenStart(k)
            a == DigitsEnd(src, st)
            b == DigitsEnd(src, a + 1)
        IN  (/\ a > st
             /\ a <= Len(src)
             /\ src[a] \in {"e", "E"}
             /\ b > a + 1
             /\ b <= Len(src)
             /\ src[b] \notin Digits \cup {".", "e", "E"})
            => /\ pulls[k].res = "some"
               /\ pulls[k].tk = "Number"
               /\ pulls[k].armEnd = b - 1

\* C5: a pull that starts at Digit+ [eE] '-' Digit+ reaching the end of the
\* stream emits a Number whose accumulated text is that numeral.
C5_NegativeExponentAccepted ==
    \A k \in Dispatched :
        LET st == TokenStart(k)
            a == DigitsEnd(src, st)
            b == DigitsEnd(src, a + 2)
        IN  (/\ a > st
             /\ a + 1 <= Len(src)
             /\ src[a] \in {"e", "E"}
             /\ src[a + 1] = "-"
             /\ b > a + 2
             /\ b = Len(src) + 1)
            => /\ pulls[k].res = "some"
               /\ pulls[k].tk = "Number"
               /\ pulls[k].text = SubSeq(src, st, Len(src))

\* C6: a pull that starts at a single `.` followed by a digit emits a Number,
\* not MemberAccess.
C6_LeadingDotNumber ==
    \A k \in Dispatched :
        LET st == TokenStart(k)
        IN  (/\ src[st] = "."
             /\ (st = 1 \/ src[st - 1] # ".")
             /\ st + 1 <= Len(src)
             /\ src[st + 1] \in Digits)
            => pulls[k].res = "some" /\ pulls[k].tk = "Number"

\* C7: the text of a Comment has no newline and is taken from the line of its
\* `--`: it is a tail of the characters between the `--` and the first
\* newline after it, and the pull consumes nothing but whitespace beyond that
\* newline, so that the next line is left to the following pulls.
C7_CommentEndsAtEndOfLine ==
    \A k \in Dispatched :
        LET st == TokenStart(k)
            nl == NewlineFrom(st + 2)
            text == pulls[k].text
        IN  (pulls[k].res = "some" /\ pulls[k].tk = "Comment")
            => /\ \A j \in 1..Len(text) : text[j] # "\n"
               /\ \E j \in (st + 2)..nl : text = SubSeq(src, j, nl - 1)
               /\ \A j \in (nl + 1)..pulls[k].end : is_whitespace(src[j])

\* C8: when the source starts with `#!`, the first lexeme is a Hashbang at
\* line 1, column 0, whose text is taken from the first line: a tail of the
\* characters between the `#!` and the first newline or the end of the stream.
C8_HashbangIsRestOfFirstLine ==
    (Len(src) >= 2 /\ src[1] = "#" /\ src[2] = "!" /\ Len(pulls) >= 1)
    => LET nl == NewlineFrom(3)
       IN  /\ Len(out) >= 1
           /\ out[1].tk = "Hashbang"
           /\ out[1].line = 1
           /\ out[1].pos = 0
           /\ \E j \in 3..nl : out[1].text = SubSeq(src, j, nl - 1)

\* C9: a pull that starts at `#` followed by `!` emits a Hashbang when no
\* character was consumed before the `#` and panics, emitting nothing, anywhere
\* else; a pull that starts at `#` not followed by `!` emits Len and consumes
\* exactly that one character.
C9_HashDispatch ==
    \A k \in Dispatched :
        LET st == TokenStart(k)
        IN  src[st] = "#"
            => IF st + 1 <= Len(src) /\ src[st + 1] = "!"
               THEN IF pulls[k].start = 0
                    THEN /\ pulls[k].res = "some"
                         /\ pulls[k].tk = "Hashbang"
                         /\ out[k].line = 1
                         /\ out[k].pos = 0
                    ELSE pulls[k].res = "panic" /\ Len(out) = k - 1
               ELSE /\ pulls[k].res = "some"
                    /\ pulls[k].tk = "Len"
                    /\ pulls[k].end = pulls[k].start + 1

\* C9 witness: a Len was emitted and a later pull panicked on a `#!` that is
\* not at the start of the source.
C9_Witness ==
    \E k \in Dispatched :
        /\ src[TokenStart(k)] = "#"
        /\ pulls[k].res = "panic"
        /\ pulls[k].start > 0
        /\ \E j \in 1..(k - 1) : pulls[j].tk = "Len"

C11_CompoundOperators ==
    \A k \in Dispatched :
        LET st == TokenStart(k)
            c == src[st]
        IN  /\ c \in DOMAIN OpBase
               => /\ pulls[k].res = "some"
                  /\ IF CharAfter(st) = OpContinuation[c]
                     THEN /\ pulls[k].tk = OpCompound[c]
                          /\ pulls[k].end = pulls[k].start + 2
                     ELSE /\ pulls[k].tk = OpBase[c]
                          /\ pulls[k].end = pulls[k].start + 1
            /\ (c = "~" /\ CharAfter(st) = "=")
               => /\ pulls[k].res = "some"
                  /\ pulls[k].tk = "NotEqual"
                  /\ pulls[k].end = pulls[k].start + 2

\* C11 witness: a compound token and, later, a base token were emitted.
C11_Witness ==
    \E k \in Dispatched :
        /\ pulls[k].res = "some"
        /\ pulls[k].tk \in {"Equal", "LessThanEqual", "GreaterThanEqual",
                            "DoubleColon", "NotEqual"}
        /\ \E j \in Dispatched :
               /\ j > k
               /\ pulls[j].res = "some"
               /\ pulls[j].tk \in {"Assignment", "LessThan", "GreaterThan", "Colon"}

\* C12: a pull that starts at a character with no match arm, or at a `~` not
\* followed by `=`, panics and emits no lexeme.
C12_UnsupportedCharacterIsFatal ==
    \A k \in Dispatched :
        LET st == TokenStart(k)
        IN  (\/ src[st] \notin TokenStartChars
             \/ src[st] = "~" /\ CharAfter(st) # "=")
            => pulls[k].res = "panic" /\ Len(out) = k - 1

\* C12 witness: after an emitted lexeme, a pull panicked at a `~` that is
\* followed by a character other than `=`.
C12_Witness ==
    \E k \in Dispatched :
        /\ k > 1
        /\ src[TokenStart(k)] = "~"
        /\ CharAfter(TokenStart(k)) \notin {None, "="}
        /\ pulls[k].res = "panic"

\* C13: the position recorded in every emitted lexeme is that of the token's
\* first character: line is 1 plus the number of newlines before it, column
\* the number of characters between the last newline before it (or the start
\* of the source) and it.
C13_LexemePosition ==
    \A k \in 1..Len(out) :
        /\ out[k].line = LineAt(pulls[k].start)
        /\ out[k].pos = ColumnAt(pulls[k].start)

\* C13 witness: a lexeme that is not the first one starts past column 0 of a
\* later line.
C13_Witness ==
    \E k \in 2..Len(out) : out[k].line >= 2 /\ out[k].pos >= 1

\* C14: line is at least 1 and never decreases; a call of next() that consumes
\* the characters buf+1..buf' adds the number of newlines among them to line,
\* sets column to the number of characters consumed after the last of these
\* newlines, or adds the number of consumed characters to column when there is
\* no newline among them; a step that consumes nothing leaves the position.
C14_PositionTracker ==
    [][/\ pos.line >= 1
       /\ buf' >= buf
       /\ pos'.line >= pos.line
       /\ pos'.line = pos.line + Cardinality(NewlinesIn(buf, buf'))
       /\ pos'.pos = IF NewlinesIn(buf, buf') = {}
                     THEN pos.pos + (buf' - buf)
                     ELSE buf' - Max(NewlinesIn(buf, buf'))]_vars

\* C14 witness: the lexer has consumed a newline and characters after it.
C14_Witness == pos.line >= 2 /\ pos.pos >= 2 /\ pc = "ready"

\* C15: every call of next() ends with a lexeme, with None or with a panic; a
\* call that emits a lexeme consumes at least the token's first character; so
\* at most Len(src) lexemes are emitted, and after more than Len(src) calls the
\* lexer is exhausted or has panicked.
C15_PullsTerminate ==
    /\ \A k \in 1..Len(pulls) :
           /\ pulls[k].res \in {"some", "none", "panic"}
           /\ pulls[k].res = "some" => pulls[k].end > pulls[k].start
    /\ Len(out) <= Len(src)
    /\ Len(pulls) > Len(src) => pc \in {"exhausted", "panicked"}

\* C15 witness: every character of a source of three or more characters was
\* emitted as a lexeme of its own, and the next call returned None.
C15_Witness == Len(src) >= 3 /\ Len(out) = Len(src) /\ pc = "exhausted"

\* C16: once a call of next() has returned None, every later call returns None
\* and leaves the cursor, the position and the emitted lexemes as they are.
C16_ExhaustedStaysExhausted ==
    [][pc = "exhausted"
       => /\ pc' = "exhausted"
          /\ pulls'[Len(pulls')].res = "none"
          /\ buf' = buf
          /\ pos' = pos
          /\ out' = out]_vars

\* C16 witness: next() was called again after it had returned None, on a
\* source that had lexemes.
C16_Witness == NoneCount >= 2 /\ Len(out) >= 1

\* C17: on a source of whitespace characters only (the empty source included)
\* the first call of next() returns None and no lexeme is ever emitted.
C17_WhitespaceOnly ==
    ((\A i \in 1..Len(src) : src[i] \in {" ", "\t", "\n"}) /\ Len(pulls) >= 1)
    => pulls[1].res = "none" /\ out = <<>>

\* C17 witness: a source of a space, a tab and a newline at least, nothing but
\* whitespace, was pulled to its end.
C17_Witness ==
    /\ {" ", "\t", "\n"} \subseteq {src[i] : i \in 1..Len(src)}
    /\ \A i \in 1..Len(src) : src[i] \in {" ", "\t", "\n"}
    /\ Len(pulls) >= 1
    /\ pulls[1].res = "none"

\* C18: a pull that starts at a digit panics with a hex error exactly when the
\* digit is `0`, the next character is `x` or `X`, and the character after
\* that is not a hex digit or is missing; when the pull emits a Number, the
\* accumulated text starts after the prefix if the numeral starts with `0x` or
\* `0X`, and at the first digit otherwise (decimal mode).
C18_HexModeDetection ==
    \A k \in Dispatched :
        LET st == TokenStart(k)
            prefix == src[st] = "0" /\ CharAfter(st) \in {"x", "X"}
            hexError == /\ pulls[k].res = "panic"
                        /\ pulls[k].msg \in {"Unexpected character in hexnum",
                                             "Unexpected end of hexnum."}
        IN  src[st] \in Digits
            => /\ hexError <=> (prefix /\ CharAfter(st + 1) \notin HexDigits)
               /\ (prefix /\ CharAfter(st + 1) \notin HexDigits) => Len(out) = k - 1
               /\ pulls[k].res = "some"
                  => /\ pulls[k].tk = "Number"
                     /\ pulls[k].text[1] = IF prefix THEN CharAfter(st + 1) ELSE src[st]

\* C18 witness: a numeral `1x` was scanned in decimal mode and emitted, and a
\* later pull at `0x` panicked with a hex error.
C18_Witness ==
    \E k \in Dispatched :
        /\ src[TokenStart(k)] = "0"
        /\ CharAfter(TokenStart(k)) = "x"
        /\ pulls[k].res = "panic"
        /\ \E j \in 1..(k - 1) :
               /\ src[TokenStart(j)] = "1"
               /\ CharAfter(TokenStart(j)) = "x"
               /\ pulls[j].res = "some"

\* C19: a pull that starts at digits, a `.`, digits (possibly none) and a
\* second `.` panics and emits nothing.
C19_SecondDotIsFatal ==
    \A k \in Dispatched :
        LET st == TokenStart(k)
            d1 == DigitsEnd(src, st)
            d2 == DigitsEnd(src, d1 + 1)
        IN  (/\ src[st] \in Digits
             /\ d1 <= Len(src)
             /\ src[d1] = "."
             /\ d2 <= Len(src)
             /\ src[d2] = ".")
            => pulls[k].res = "panic" /\ Len(out) = k - 1

\* C19 witness: a pull panicked at the second `.` of a numeral with digits
\* between its two dots.
C19_Witness ==
    \E k \in Dispatched :
        LET st == TokenStart(k)
            d1 == DigitsEnd(src, st)
            d2 == DigitsEnd(src, d1 + 1)
        IN  /\ src[st] \in Digits
            /\ d1 <= Len(src)
            /\ src[d1] = "."
            /\ d2 > d1 + 1
            /\ d2 <= Len(src)
            /\ src[d2] = "."
            /\ pulls[k].res = "panic"
            /\ pulls[k].end = d2 - 1

\* C20: a pull that starts at digits and an exponent marker followed by a
\* letter panics and emits nothing; a pull that starts at digits, an exponent
\* marker and digits up to the end of the source emits one Number for all of
\* it, the last lexeme of the source.
C20_ExponentLetterIsFatal ==
    \A k \in Dispatched :
        LET st == TokenStart(k)
            d1 == DigitsEnd(src, st)
            d2 == DigitsEnd(src, d1 + 1)
        IN  (src[st] \in Digits /\ d1 <= Len(src) /\ src[d1] \in {"e", "E"})
            => /\ CharAfter(d1) \in Letters
                  => pulls[k].res = "panic" /\ Len(out) = k - 1
               /\ (d2 > d1 + 1 /\ d2 = Len(src) + 1)
                  => /\ pulls[k].res = "some"
                     /\ pulls[k].tk = "Number"
                     /\ pulls[k].text = SubSeq(src, st, Len(src))
                     /\ Len(out) = k

\* C20 witness: after an emitted lexeme, a pull panicked at a numeral whose
\* exponent marker is followed by a letter.
C20_Witness ==
    \E k \in Dispatched :
        LET st == TokenStart(k)
            d1 == DigitsEnd(src, st)
        IN  /\ k > 1
            /\ src[st] \in Digits
            /\ d1 <= Len(src)
            /\ src[d1] \in {"e", "E"}
            /\ CharAfter(d1) \in Letters
            /\ pulls[k].res = "panic"

\* C21: a pull that starts at a quote panics and emits nothing when the string
\* body has a backslash followed by a character that is no escape code or by
\* the end of the source; otherwise every backslash and the character after it
\* stand for exactly one decoded character of the emitted text (the escape
\* codes \ ' " [ ] for themselves, a b v f n r t for BEL BS VT FF LF CR TAB),
\* and an escaped delimiter does not close the string: a closed string ends at
\* the first unescaped delimiter.
C21_EscapeDecoding ==
    \A k \in Dispatched :
        LET st == TokenStart(k)
            close == CloseIdx(st + 1, src[st])
            bad == BadEscape(st + 1, src[st])
        IN  src[st] \in {"\"", "'"}
            => /\ bad => pulls[k].res = "panic" /\ Len(out) = k - 1
               /\ pulls[k].res = "panic" => bad
               /\ pulls[k].res = "some"
                  => /\ pulls[k].tk = "StaticString"
                     /\ pulls[k].text = Decoded(st + 1, src[st])
               /\ (~bad /\ close # 0)
                  => /\ pulls[k].res = "some"
                     /\ pulls[k].closed
                     /\ pulls[k].armEnd = close

\* C21 witness: a closed string was emitted whose text has its own delimiter,
\* from an escape, and one more character.
C21_Witness ==
    \E k \in Dispatched :
        /\ pulls[k].res = "some"
        /\ pulls[k].tk = "StaticString"
        /\ pulls[k].closed
        /\ Len(pulls[k].text) >= 2
        /\ \E j \in 1..Len(pulls[k].text) : pulls[k].text[j] = src[TokenStart(k)]

\* C22: a pull that starts at a quote and emits a closed string stopped at the
\* first unescaped occurrence of that same quote, and its text is the decoded
\* characters between the two; when there is no backslash before the first
\* occurrence of the opening quote, the string is closed there and its text is
\* the characters in between as they are, the other quote and raw newlines
\* included.
C22_ClosedBySameQuote ==
    \A k \in Dispatched :
        LET st == TokenStart(k)
            close == CloseIdx(st + 1, src[st])
            same == FirstIdx(st + 1, src[st])
        IN  src[st] \in {"\"", "'"}
            => /\ pulls[k].closed
                  => /\ close # 0
                     /\ pulls[k].armEnd = close
                     /\ src[pulls[k].armEnd] = src[st]
                     /\ pulls[k].text = Decoded(st + 1, src[st])
               /\ (same # 0 /\ \A j \in (st + 1)..same : src[j] # "\\")
                  => /\ pulls[k].res = "some"
                     /\ pulls[k].tk = "StaticString"
                     /\ pulls[k].closed
                     /\ pulls[k].armEnd = same
                     /\ pulls[k].text = SubSeq(src, st + 1, same - 1)

\* C22 witness: a closed string was emitted whose text has the other quote
\* character and a raw newline.
C22_Witness ==
    \E k \in Dispatched :
        /\ pulls[k].res = "some"
        /\ pulls[k].tk = "StaticString"
        /\ pulls[k].closed
        /\ \E i, j \in (TokenStart(k) + 1)..(pulls[k].armEnd - 1) :
               /\ src[i] \in {"\"", "'"}
               /\ src[j] = "\n"
               /\ \E m, n \in 1..Len(pulls[k].text) :
                      pulls[k].text[m] = src[i] /\ pulls[k].text[n] = "\n"

\* C23: a pull that starts at a letter or `_` emits Ident with the maximal run
\* of letters, digits and underscores from there as its text, reserved words
\* included, and consumes exactly that run: the character that ends the run is
\* where the next pull starts, unless it is whitespace.  No lexeme is a
\* Keyword.
C23_Identifier ==
    /\ \A k \in Dispatched :
           LET st == TokenStart(k)
               e == WordEnd(st)
           IN  src[st] \in Letters \cup {"_"}
               => /\ pulls[k].res = "some"
                  /\ pulls[k].tk = "Ident"
                  /\ pulls[k].text = SubSeq(src, st, e - 1)
                  /\ pulls[k].end = e - 1
                  /\ (k + 1 \in Dispatched /\ ~is_whitespace(src[e]))
                     => TokenStart(k + 1) = e
    /\ \A k \in 1..Len(out) : out[k].tk # "Keyword"

\* C23 witness: the reserved word `end` was emitted as an Ident and the `(`
\* right after it as the next lexeme.
C23_Witness ==
    \E k \in 1..(Len(out) - 1) :
        /\ out[k].tk = "Ident"
        /\ out[k].text = <<"e", "n", "d">>
        /\ out[k + 1].tk = "OpenParen"
        /\ src[TokenStart(k + 1)] = "("
        /\ TokenStart(k + 1) = TokenStart(k) + 3

\* C24: the message of every panic is the position of the lexer at the panic
\* in the form `[line, column]`, a space, and the description.
C24_ErrorMessageFormat ==
    \A k \in 1..Len(pulls) :
        pulls[k].res = "panic"
        => pulls[k].report = fmt_Display(pos) \o " " \o pulls[k].msg

\* C25: a pull that starts at a character with no match arm, or at a `~` not
\* followed by `=`, panics; a pull that panics emits no lexeme and is the last
\* call of next(): the lexemes are those of the pulls before it, and the lexer
\* stays where the panic left it.
C25_FatalHaltsLexing ==
    \A k \in Dispatched :
        LET st == TokenStart(k)
            fatal == \/ src[st] \notin TokenStartChars
                     \/ src[st] = "~" /\ CharAfter(st) # "="
        IN  /\ fatal => pulls[k].res = "panic"
            /\ pulls[k].res = "panic"
               => /\ k = Len(pulls)
                  /\ Len(out) = k - 1
                  /\ \A j \in 1..(k - 1) : pulls[j].res = "some"
                  /\ pc = "panicked"
                  /\ buf = pulls[k].end
                  /\ ~ENABLED LexerNext

\* C25 witness: a pull panicked after lexemes were emitted and before a part
\* of the source that has characters a token can start with.
C25_Witness ==
    /\ pc = "panicked"
    /\ Len(out) >= 1
    /\ \E j \in (buf + 2)..Len(src) : src[j] \in TokenStartChars

\* C26: of two lexemes emitted one after the other, the later one has the
\* greater line, or the same line and the greater column.
C26_StrictlyOrdered ==
    \A k \in 1..(Len(out) - 1) :
        \/ out[k].line < out[k + 1].line
        \/ out[k].line = out[k + 1].line /\ out[k].pos < out[k + 1].pos

\* C26 witness: two successive lexemes on one line and two successive lexemes
\* on different lines were emitted, the later one at a smaller column.
C26_Witness ==
    /\ \E k \in 1..(Len(out) - 1) : out[k].line = out[k + 1].line
    /\ \E k \in 1..(Len(out) - 1) :
           out[k].line < out[k + 1].line /\ out[k].pos > out[k + 1].pos

\* C27: a pull that starts at `0x` or `0X` and a hex digit never panics with
\* an exponent error; when the run of hex digits after the prefix, `e` and `E`
\* included, is not followed by `.` and fits an i64, the pull emits a Number
\* that has accumulated exactly that run, and (for runs of at most seven
\* digits) its value is the base-16 number of the run.
C27_HexHasNoExponent ==
    \A k \in Dispatched :
        LET st == TokenStart(k)
            e == HexEnd(st + 2)
        IN  (src[st] = "0" /\ CharAfter(st) \in {"x", "X"} /\ e > st + 2)
            => /\ pulls[k].msg \notin {"Unexpected character in exponent",
                                       "A number can contain one exponent at max!"}
               /\ (CharAfter(e - 1) # "." /\ e - (st + 2) < 16)
                  => /\ pulls[k].res = "some"
                     /\ pulls[k].tk = "Number"
                     /\ pulls[k].text = SubSeq(src, st + 2, e - 1)
                     /\ pulls[k].armEnd = e - 1
               /\ (CharAfter(e - 1) # "." /\ e - (st + 2) <= 7)
                  => BitsNumber(pulls[k].num, 0) = HexNumber(st + 2, e - 1, 0)

\* C27 witness: a Number was emitted for a hexadecimal numeral that has an `e`
\* or `E` followed by a digit that is no decimal digit, and another `e` or `E`.
C27_Witness ==
    \E k \in Dispatched :
        /\ pulls[k].res = "some"
        /\ pulls[k].tk = "Number"
        /\ src[TokenStart(k) + 1] \in {"x", "X"}
        /\ Len(pulls[k].text) <= 7
        /\ \E i, j \in 1..Len(pulls[k].text) :
               /\ i + 1 < j
               /\ pulls[k].text[i] \in {"e", "E"}
               /\ pulls[k].text[i + 1] = "F"
               /\ pulls[k].text[j] \in {"e", "E"}

\* C28: a pull that starts at a hexadecimal numeral not followed by `.` emits
\* a Number when the base-16 value of the numeral is at most 2^63 - 1 (a binary
\* numeral of at most 63 bits) and panics with the parse error, emitting
\* nothing, when it is greater.  The Number has that value widened to f64: the
\* value itself when it has at most 53 bits, and otherwise the nearer of the
\* two neighbouring numbers of 53 significant bits (the even one on a tie).
C28_HexIsParsedAsI64 ==
    \A k \in Dispatched :
        LET st == TokenStart(k)
            e == HexEnd(st + 2)
            v == HexBinary(st + 2, e - 1, TRUE)
        IN  (/\ src[st] = "0"
             /\ CharAfter(st) \in {"x", "X"}
             /\ e > st + 2
             /\ CharAfter(e - 1) # ".")
            => IF Len(v) <= 63
               THEN /\ pulls[k].res = "some"
                    /\ pulls[k].tk = "Number"
                    /\ Len(v) <= 53 => pulls[k].num = v
                    /\ Len(v) > 53
                       => /\ pulls[k].num \in {Below53(v), Above53(v)}
                          /\ v[54] = 0 => pulls[k].num = Below53(v)
                          /\ (v[54] = 1 /\ \E j \in 55..Len(v) : v[j] = 1)
                             => pulls[k].num = Above53(v)
                          /\ (v[54] = 1 /\ \A j \in 55..Len(v) : v[j] = 0)
                             => pulls[k].num[53] = 0
               ELSE /\ pulls[k].res = "panic"
                    /\ pulls[k].msg = "ParseIntError"
                    /\ Len(out) = k - 1

\* C28 witness: a Number was emitted for a numeral of sixteen significant
\* digits, a value of 63 bits.
C28_Witness ==
    \E k \in Dispatched :
        /\ pulls[k].res = "some"
        /\ pulls[k].tk = "Number"
        /\ src[TokenStart(k) + 1] \in {"x", "X"}
        /\ Len(HexBinary(TokenStart(k) + 2, pulls[k].armEnd, TRUE)) = 63

====
